---- MODULE Spec2Model ----
(***************************************************************************)
(* A model of range_of_ptrs (RangeOfPointers.hpp): algorithms over ranges  *)
(* of owning raw pointers, and the two scope guards.                       *)
(*                                                                         *)
(* The heap is explicit.  An address is live from the new-expression that  *)
(* returns it to the delete-expression that frees it; operator new may     *)
(* hand out again any address that has been freed.  Slots hold an address  *)
(* or NULL.  Every algorithm is a loop; one action is one iteration of it. *)
(***************************************************************************)
EXTENDS Integers, Sequences, FiniteSets, TLC

\* Longest range / container.
MaxLen == 3
\* Pointee contents (TestObject(int)) are 0 .. MaxVal.
MaxVal == 2

Val == 0 .. MaxVal
\* Enough addresses for a source, a destination and one clone per slot.
Addr == 1 .. (3 * MaxLen)
NULL == 0

VARIABLES
    heap,     \* the free store: live addresses, their pointees, new/delete counts
    src,      \* the slots of [first, last): pVec of main(), or the source range
    dst,      \* the slots the destination iterator walks
    res,      \* the container DeepCopyOfRange builds ("result")
    pc,       \* where the caller is
    op,       \* the algorithm being run
    arg,      \* its value / predicate argument
    first,    \* the algorithm's `first` iterator (an index into src; last = Len+1)
    dest,     \* its `dest` iterator (an index into dst)
    result,   \* its `result` iterator, and after return the iterator returned
    ndebug,   \* TRUE when the build defines NDEBUG (assert expands to nothing)
    pCont,    \* raii_ptrs_container_wrapper::pCont_
    first_,   \* raii_ptrs_range_wrapper::first_
    last_,    \* raii_ptrs_range_wrapper::last_
    orig,     \* what the caller passed in: the slots and the heap at the call
    hist      \* the caller's own calls that the properties refer to, in order

vars == <<heap, src, dst, res, pc, op, arg, first, dest, result, ndebug,
          pCont, first_, last_, orig, hist>>

(***************************************************************************)
(* The free store.                                                         *)
(***************************************************************************)
EmptyHeap ==
    [live |-> {}, val |-> << >>,
     nAlloc |-> [a \in Addr |-> 0], nFree |-> [a \in Addr |-> 0]]

\* The addresses operator new may return: one that was freed, or the next
\* address never handed out (addresses never handed out are interchangeable).
NeverUsed(h) == {a \in Addr : h.nAlloc[a] = 0}
AllocChoices(h) ==
    {a \in Addr : /\ a \notin h.live
                  /\ \/ h.nAlloc[a] > 0
                     \/ /\ a \in NeverUsed(h)
                        /\ \A b \in NeverUsed(h) : a <= b}

\* new ValueType(v) returning address a.
New(h, a, v) ==
    [live   |-> h.live \cup {a},
     val    |-> [x \in h.live \cup {a} |-> IF x = a THEN v ELSE h.val[x]],
     nAlloc |-> [h.nAlloc EXCEPT ![a] = @ + 1],
     nFree  |-> h.nFree]

\* delete p.  delete of a null pointer does nothing.  delete of an address
\* that is not live is a double delete: it is counted, the store is left as is.
Delete(h, p) ==
    IF p = NULL THEN h
    ELSE [live   |-> h.live \ {p},
          val    |-> [x \in h.live \ {p} |-> h.val[x]],
          nAlloc |-> h.nAlloc,
          nFree  |-> [h.nFree EXCEPT ![p] = @ + 1]]

\* *p = v (copy assignment, or destroy + placement-new at the same storage).
Assign(h, p, v) == [h EXCEPT !.val = [@ EXCEPT ![p] = v]]

\* for (auto p : c) delete p;
RECURSIVE DeleteAll(_, _)
DeleteAll(h, s) ==
    IF s = << >> THEN h ELSE DeleteAll(Delete(h, Head(s)), Tail(s))

\* Every new has been matched by exactly one delete.
ExactlyOnce(h) == h.live = {} /\ \A a \in Addr : h.nFree[a] = h.nAlloc[a]
\* How often address a was deleted since heap h0.
Deleted(h0, h, a) == h.nFree[a] - h0.nFree[a]

(***************************************************************************)
(* The callables handed to the algorithms.                                 *)
(***************************************************************************)
UnaryPreds == {"isEven", "isPositive"}
UnaryPred(p, x) == IF p = "isEven" THEN x % 2 = 0 ELSE x > 0

BinaryPreds == {"equal_to", "sameParity"}
BinaryPred(p, x, y) == IF p = "equal_to" THEN x = y ELSE x % 2 = y % 2

Last(s) == Len(s) + 1

Range(s) == {s[i] : i \in DOMAIN s}
NoNulls(s) == \A i \in DOMAIN s : s[i] # NULL
\* s ordered by pointee value (what std::sort with less<> leaves).
SortedBy(s, h) == \A i, j \in DOMAIN s : i < j => h.val[s[i]] <= h.val[s[j]]

\* What every action of a specification leaves alone.
NoCopy  == UNCHANGED <<dst, res, dest, ndebug>>
NoGuard == UNCHANGED <<first_, last_>>

(***************************************************************************)
(* main(): a vector bound to a container guard is filled, sorted,          *)
(* compacted, the dead tail is erased, and the guard goes out of scope.    *)
(***************************************************************************)
Init ==
    /\ heap = EmptyHeap
    /\ src = << >>
    /\ dst = << >>
    /\ res = << >>
    /\ pc = "build"
    /\ op = "none"
    /\ arg = 0
    /\ first = 0
    /\ dest = 0
    /\ result = 0
    /\ ndebug = FALSE
    /\ pCont = "src"
    /\ first_ = 0
    /\ last_ = 0
    /\ orig = [src |-> << >>, dst |-> << >>, heap |-> EmptyHeap]
    /\ hist = << >>

\* pVec.push_back(new TestObject(v));
PushBack ==
    /\ pc = "build"
    /\ Len(src) < MaxLen
    /\ \E v \in Val : \E a \in AllocChoices(heap) :
          /\ heap' = New(heap, a, v)
          /\ src' = Append(src, a)
    /\ UNCHANGED <<pc, op, arg, first, result, pCont, orig, hist>>
    /\ NoCopy /\ NoGuard

\* std::sort(begin, end, BinaryFunctorDerefPtrsAdapter<std::less<>>()): some
\* rearrangement of the pointers that is ordered by pointee.
Sort ==
    /\ pc = "build"
    /\ \E f \in [DOMAIN src -> DOMAIN src] :
          /\ \A i, j \in DOMAIN src : i # j => f[i] # f[j]
          /\ SortedBy([i \in DOMAIN src |-> src[f[i]]], heap)
          /\ src' = [i \in DOMAIN src |-> src[f[i]]]
    /\ pc' = "ready"
    /\ hist' = Append(hist, "sort")
    /\ UNCHANGED <<heap, op, arg, first, result, pCont, orig>>
    /\ NoCopy /\ NoGuard

\* The caller enters a compaction algorithm over [begin(pVec), end(pVec)).
Enter(o, a) ==
    /\ pc \in {"build", "ready"}
    /\ op' = o
    /\ arg' = a
    /\ first' = 1
    /\ result' = 1
    /\ orig' = [src |-> src, dst |-> dst, heap |-> heap]
    /\ UNCHANGED <<heap, src, pCont, hist>>
    /\ NoCopy /\ NoGuard

CallRemove == \E v \in Val : Enter("Remove", v) /\ pc' = "loop"

CallRemoveIf == \E p \in UnaryPreds : Enter("RemoveIf", p) /\ pc' = "loop"

\* Unique returns at once on an empty range (result = last).
CallUnique == Enter("Unique", 0) /\ pc' = IF src = << >> THEN "done" ELSE "loop"

CallUniquePred ==
    \E p \in BinaryPreds :
        Enter("UniquePred", p) /\ pc' = IF src = << >> THEN "done" ELSE "loop"

\* Remove with the comparison inverted: drops what it should keep.
RemoveIterInverted(h, s, f, r, v) ==
    IF h.val[s[f]] = v
    THEN [h |-> h, s |-> [s EXCEPT ![r] = s[f]], r |-> r + 1]
    ELSE [h |-> Delete(h, s[f]), s |-> [s EXCEPT ![f] = NULL], r |-> r]

\* One iteration of Remove's loop with first = f and result = r.
RemoveIter(h, s, f, r, v) ==
    IF ~(h.val[s[f]] = v)
    THEN [h |-> h, s |-> [s EXCEPT ![r] = s[f]], r |-> r + 1]
    ELSE [h |-> Delete(h, s[f]), s |-> [s EXCEPT ![f] = NULL], r |-> r]

RemoveIfIter(h, s, f, r, p) ==
    IF ~UnaryPred(p, h.val[s[f]])
    THEN [h |-> h, s |-> [s EXCEPT ![r] = s[f]], r |-> r + 1]
    ELSE [h |-> Delete(h, s[f]), s |-> [s EXCEPT ![f] = NULL], r |-> r]

\* Unique without its ++result: the kept pointer is overwritten.
UniqueIterNoAdvance(h, s, f, r) ==
    IF ~(h.val[s[r]] = h.val[s[f]])
    THEN [h |-> h, s |-> [s EXCEPT ![r] = s[f]], r |-> r]
    ELSE [h |-> Delete(h, s[f]), s |-> [s EXCEPT ![f] = NULL], r |-> r]

\* One iteration of Unique's loop, f being first after its ++first.
UniqueIter(h, s, f, r) ==
    IF ~(h.val[s[r]] = h.val[s[f]])
    THEN [h |-> h, s |-> [s EXCEPT ![r + 1] = s[f]], r |-> r + 1]
    ELSE [h |-> Delete(h, s[f]), s |-> [s EXCEPT ![f] = NULL], r |-> r]

\* Unique that nulls a duplicate's slot without deleting the duplicate.
UniquePredIterNoDelete(h, s, f, r, p) ==
    IF ~BinaryPred(p, h.val[s[r]], h.val[s[f]])
    THEN [h |-> h, s |-> [s EXCEPT ![r + 1] = s[f]], r |-> r + 1]
    ELSE [h |-> h, s |-> [s EXCEPT ![f] = NULL], r |-> r]

UniquePredIter(h, s, f, r, p) ==
    IF ~BinaryPred(p, h.val[s[r]], h.val[s[f]])
    THEN [h |-> h, s |-> [s EXCEPT ![r + 1] = s[f]], r |-> r + 1]
    ELSE [h |-> Delete(h, s[f]), s |-> [s EXCEPT ![f] = NULL], r |-> r]

Took(n, f) ==
    /\ heap' = n.h
    /\ src' = n.s
    /\ result' = n.r
    /\ first' = f
    /\ UNCHANGED <<pc, op, arg, pCont, orig, hist>>
    /\ NoCopy /\ NoGuard

StepRemove ==
    /\ pc = "loop" /\ op = "Remove" /\ first # Last(src)
    /\ Took(RemoveIter(heap, src, first, result, arg), first + 1)

StepRemoveIf ==
    /\ pc = "loop" /\ op = "RemoveIf" /\ first # Last(src)
    /\ Took(RemoveIfIter(heap, src, first, result, arg), first + 1)

StepUnique ==
    /\ pc = "loop" /\ op = "Unique" /\ first + 1 # Last(src)
    /\ Took(UniqueIter(heap, src, first + 1, result), first + 1)

StepUniquePred ==
    /\ pc = "loop" /\ op = "UniquePred" /\ first + 1 # Last(src)
    /\ Took(UniquePredIter(heap, src, first + 1, result, arg), first + 1)

\* return result;
ReturnRemove ==
    /\ pc = "loop" /\ op \in {"Remove", "RemoveIf"} /\ first = Last(src)
    /\ pc' = "done"
    /\ UNCHANGED <<heap, src, op, arg, first, result, pCont, orig, hist>>
    /\ NoCopy /\ NoGuard

\* ++result; return result;
ReturnUnique ==
    /\ pc = "loop" /\ op \in {"Unique", "UniquePred"} /\ first + 1 = Last(src)
    /\ pc' = "done"
    /\ first' = first + 1
    /\ result' = result + 1
    /\ UNCHANGED <<heap, src, op, arg, pCont, orig, hist>>
    /\ NoCopy /\ NoGuard

\* pVec.erase(<returned end>, std::end(pVec));
Erase ==
    /\ pc = "done"
    /\ "erase" \notin Range(hist)
    /\ src' = SubSeq(src, 1, result - 1)
    /\ hist' = Append(hist, "erase")
    /\ UNCHANGED <<heap, pc, op, arg, first, result, pCont, orig>>
    /\ NoCopy /\ NoGuard

\* The destructor with its null test inverted.
ContainerGuardDtorInverted(h, bound, c) ==
    IF bound # "nullptr" THEN h ELSE DeleteAll(h, c)

\* ~raii_ptrs_container_wrapper()
ContainerGuardDtor(h, bound, c) == IF bound = "nullptr" THEN h ELSE DeleteAll(h, c)

\* The closing brace of main()'s block: the guard, then the vector, die.
ScopeExit ==
    /\ pc \in {"build", "ready", "done"}
    /\ heap' = ContainerGuardDtor(heap, pCont, src)
    /\ pc' = "destroyed"
    /\ UNCHANGED <<src, op, arg, first, result, pCont, orig, hist>>
    /\ NoCopy /\ NoGuard

Next ==
    \/ PushBack
    \/ Sort
    \/ CallRemove
    \/ CallRemoveIf
    \/ CallUnique
    \/ CallUniquePred
    \/ StepRemove
    \/ StepRemoveIf
    \/ StepUnique
    \/ StepUniquePred
    \/ ReturnRemove
    \/ ReturnUnique
    \/ Erase
    \/ ScopeExit

Spec == Init /\ [][Next]_vars

(***************************************************************************)
(* Properties of the compaction algorithms and of main()'s scenario.       *)
(***************************************************************************)
\* The elements of s at the indices I, in order.
SubSeqAt(s, I) ==
    [k \in 1 .. Cardinality(I) |->
        s[CHOOSE i \in I : Cardinality({j \in I : j < i}) = k - 1]]

Erased == "erase" \in Range(hist)
Compactions == {"Remove", "RemoveIf", "Unique", "UniquePred"}
\* The logical prefix [first, returned end).
Prefix == SubSeq(src, 1, result - 1)
\* Address a was deleted exactly once if it is one of s0's at the indices I,
\* and never otherwise.
DeletedExactly(s0, I) ==
    \A a \in Addr :
        Deleted(orig.heap, heap, a) = IF \E i \in I : s0[i] = a THEN 1 ELSE 0

\* C1: a container filled with fresh objects under a container guard, compacted
\* with Unique or Remove, its tail [returned end, end) erased, and the guard
\* destroyed unreleased: every address allocated was deleted exactly once.
C1_NoLeakNoDoubleFree ==
    (pc = "destroyed" /\ op \in Compactions /\ Erased) => ExactlyOnce(heap)

C1_Witness ==
    /\ pc = "destroyed" /\ op = "UniquePred" /\ arg = "equal_to" /\ Erased
    /\ hist = <<"sort", "erase">>
    /\ Len(orig.src) = MaxLen
    /\ Len(src) = 2

\* C2: Remove(first,last,v) over non-null owned pointers: [first, returned end)
\* holds exactly the pointers whose pointee differs from v, in their original
\* order; each pointer whose pointee equals v was deleted exactly once, and no
\* other pointer was deleted.
C2_RemoveContract ==
    (pc = "done" /\ op = "Remove") =>
        LET s0 == orig.src
            keep == {i \in DOMAIN s0 : orig.heap.val[s0[i]] # arg}
        IN  /\ Prefix = SubSeqAt(s0, keep)
            /\ DeletedExactly(s0, DOMAIN s0 \ keep)
            /\ \A i \in keep : /\ s0[i] \in heap.live
                               /\ heap.val[s0[i]] = orig.heap.val[s0[i]]

C2_Witness ==
    /\ pc = "done" /\ op = "Remove"
    /\ Len(orig.src) = MaxLen
    /\ \E i, j, k \in DOMAIN orig.src :
          /\ i < j /\ j < k
          /\ orig.heap.val[orig.src[i]] = arg
          /\ orig.heap.val[orig.src[j]] # arg
          /\ orig.heap.val[orig.src[k]] = arg

\* C3: Unique(first,last) over non-null owned pointers sorted by pointee: the
\* prefix [first, returned end) has no two adjacent equal pointees and is the
\* first pointer of each run of equal pointees, in order (one representative
\* per distinct value); every other pointer was deleted exactly once; on an
\* empty range it returns last and deletes nothing.
C3_UniqueContract ==
    (/\ pc = "done"
     /\ op = "Unique" \/ (op = "UniquePred" /\ arg = "equal_to")
     /\ SortedBy(orig.src, orig.heap)) =>
        LET s0 == orig.src
            h0 == orig.heap
            heads == {i \in DOMAIN s0 : i = 1 \/ h0.val[s0[i]] # h0.val[s0[i - 1]]}
        IN  /\ Prefix = SubSeqAt(s0, heads)
            /\ \A i \in 1 .. Len(Prefix) - 1 :
                  heap.val[Prefix[i]] # heap.val[Prefix[i + 1]]
            /\ {heap.val[Prefix[i]] : i \in DOMAIN Prefix}
                  = {h0.val[s0[i]] : i \in DOMAIN s0}
            /\ Len(Prefix) = Cardinality({h0.val[s0[i]] : i \in DOMAIN s0})
            /\ DeletedExactly(s0, DOMAIN s0 \ heads)
            /\ s0 = << >> => (result = Last(s0) /\ heap = h0)

C3_Witness ==
    /\ pc = "done" /\ op = "Unique" /\ ~Erased
    /\ Len(orig.src) = MaxLen
    /\ SortedBy(orig.src, orig.heap)
    /\ orig.heap.val[orig.src[1]] = orig.heap.val[orig.src[2]]
    /\ orig.heap.val[orig.src[2]] # orig.heap.val[orig.src[3]]
    /\ result = 3

\* C4: after Remove, RemoveIf or Unique returns, every slot of the original
\* range is null or holds a live address no other slot holds, and the slots
\* of the tail [returned end, last) are null.
C4_SingleOwnerAfterCompaction ==
    (pc = "done" /\ op \in Compactions /\ ~Erased) =>
        /\ \A i \in DOMAIN src :
              \/ src[i] = NULL
              \/ /\ src[i] \in heap.live
                 /\ \A j \in DOMAIN src : j # i => src[j] # src[i]
        /\ \A i \in result .. Len(src) : src[i] = NULL

(***************************************************************************)
(* The copy, replace and clone families.  The caller owns a source range   *)
(* of live pointers and a destination range of the same length, whose      *)
(* slots are all owned pointers or all null, and has put a range guard     *)
(* around the destination.                                                 *)
(***************************************************************************)
\* The heap holding objects 1 .. n with the pointees v[1] .. v[n].
HeapOf(n, v) ==
    [live   |-> 1 .. n,
     val    |-> [a \in 1 .. n |-> v[a]],
     nAlloc |-> [a \in Addr |-> IF a <= n THEN 1 ELSE 0],
     nFree  |-> [a \in Addr |-> 0]]

InitCopy ==
    \E n \in 0 .. MaxLen : \E sv \in [1 .. n -> Val] :
    \E owned \in BOOLEAN : \E dv \in Val : \E nd \in BOOLEAN :
        /\ src = [i \in 1 .. n |-> i]
        /\ dst = [i \in 1 .. n |-> IF owned THEN n + i ELSE NULL]
        /\ heap = IF owned
                  THEN HeapOf(2 * n, [a \in 1 .. 2 * n |-> IF a <= n THEN sv[a] ELSE dv])
                  ELSE HeapOf(n, sv)
        /\ ndebug = nd
        /\ res = << >>
        /\ pc = "idle"
        /\ op = "none"
        /\ arg = 0
        /\ first = 0
        /\ dest = 0
        /\ result = 0
        /\ pCont = "nullptr"
        /\ first_ = 1
        /\ last_ = n + 1
        /\ orig = [src |-> << >>, dst |-> << >>, heap |-> EmptyHeap]
        /\ hist = << >>

Frame == UNCHANGED <<src, res, op, arg, result, ndebug, pCont, first_, last_, orig, hist>>

\* The caller enters an algorithm with (begin(src), end(src), begin(dst)).
EnterCopy(o, a) ==
    /\ pc = "idle"
    /\ pc' = "loop"
    /\ op' = o
    /\ arg' = a
    /\ first' = 1
    /\ dest' = 1
    /\ orig' = [src |-> src, dst |-> dst, heap |-> heap]
    /\ UNCHANGED <<heap, src, dst, res, result, ndebug, pCont, first_, last_, hist>>

CallCopy == EnterCopy("Copy", 0)
CallCopyIf == \E p \in UnaryPreds : EnterCopy("CopyIf", p)
CallReplaceCopy == EnterCopy("ReplaceCopy", 0)
CallReplaceCopyIf == \E p \in UnaryPreds : EnterCopy("ReplaceCopyIf", p)
CallClone == EnterCopy("Clone", 0)
CallCloneIf == \E p \in UnaryPreds : EnterCopy("CloneIf", p)
CallReplaceClone == EnterCopy("ReplaceClone", 0)
CallReplaceCloneIf == \E p \in UnaryPreds : EnterCopy("ReplaceCloneIf", p)

\* The loop of algorithm o is at an element.
Visit(o) == pc = "loop" /\ op = o /\ first # Last(src)

\* assert(*dest != nullptr); assert(*first != nullptr); in a build without NDEBUG.
AssertFails == ~ndebug /\ (dst[dest] = NULL \/ src[first] = NULL)

\* The call ends here: an assertion aborts it ("assert"), a null pointer is
\* dereferenced ("ub"), or Clone() throws ("thrown").
Stop(at, h) ==
    /\ pc' = at
    /\ heap' = h
    /\ UNCHANGED <<dst, dest, first>>
    /\ Frame

Moved(n) ==
    /\ heap' = n.h
    /\ dst' = n.d
    /\ dest' = n.de
    /\ first' = first + 1
    /\ UNCHANGED pc
    /\ Frame

\* TestObject::Clone(): a new object holding a copy of *p, at address a.
CloneObj(h, p, a) == New(h, a, h.val[p])

\* One iteration of each loop: h the heap, d the destination slots, de the
\* dest iterator, p = *first, pr the predicate, a the address Clone() returns.
CopyIter(h, d, de, p) ==
    [h |-> Assign(h, d[de], h.val[p]), d |-> d, de |-> de + 1]

CopyIfIter(h, d, de, p, pr) ==
    IF UnaryPred(pr, h.val[p])
    THEN [h |-> Assign(h, d[de], h.val[p]), d |-> d, de |-> de + 1]
    ELSE [h |-> h, d |-> d, de |-> de]

ReplaceCopyIter(h, d, de, p) ==
    [h |-> Assign(h, d[de], h.val[p]), d |-> d, de |-> de + 1]

\* ++dest is in the for statement: dest moves whether or not pred holds.
ReplaceCopyIfIter(h, d, de, p, pr) ==
    IF UnaryPred(pr, h.val[p])
    THEN [h |-> Assign(h, d[de], h.val[p]), d |-> d, de |-> de + 1]
    ELSE [h |-> h, d |-> d, de |-> de + 1]

CloneIter(h, d, de, p, a) ==
    [h |-> CloneObj(h, p, a), d |-> [d EXCEPT ![de] = a], de |-> de + 1]

\* ReplaceClone without its delete(*dest).
ReplaceCloneIterNoDelete(h, d, de, p, a) ==
    [h |-> CloneObj(h, p, a), d |-> [d EXCEPT ![de] = a], de |-> de + 1]

\* delete(*dest); *dest = (*first)->Clone();
ReplaceCloneIter(h, d, de, p, a) ==
    [h |-> CloneObj(Delete(h, d[de]), p, a), d |-> [d EXCEPT ![de] = a], de |-> de + 1]

StepCopy ==
    /\ Visit("Copy")
    /\ IF AssertFails THEN Stop("assert", heap)
       ELSE IF dst[dest] = NULL THEN Stop("ub", heap)
       ELSE Moved(CopyIter(heap, dst, dest, src[first]))

StepCopyIf ==
    /\ Visit("CopyIf")
    /\ IF AssertFails THEN Stop("assert", heap)
       ELSE IF dst[dest] = NULL /\ UnaryPred(arg, heap.val[src[first]])
       THEN Stop("ub", heap)
       ELSE Moved(CopyIfIter(heap, dst, dest, src[first], arg))

StepReplaceCopy ==
    /\ Visit("ReplaceCopy")
    /\ IF AssertFails THEN Stop("assert", heap)
       ELSE IF dst[dest] = NULL THEN Stop("ub", heap)
       ELSE Moved(ReplaceCopyIter(heap, dst, dest, src[first]))

StepReplaceCopyIf ==
    /\ Visit("ReplaceCopyIf")
    /\ IF AssertFails THEN Stop("assert", heap)
       ELSE IF dst[dest] = NULL /\ UnaryPred(arg, heap.val[src[first]])
       THEN Stop("ub", heap)
       ELSE Moved(ReplaceCopyIfIter(heap, dst, dest, src[first], arg))

\* Clone() returns a new object, or throws (std::bad_alloc).
StepClone ==
    /\ Visit("Clone")
    /\ IF AssertFails THEN Stop("assert", heap)
       ELSE \/ \E a \in AllocChoices(heap) :
                  Moved(CloneIter(heap, dst, dest, src[first], a))
            \/ Stop("thrown", heap)

StepCloneIf ==
    /\ Visit("CloneIf")
    /\ IF AssertFails THEN Stop("assert", heap)
       ELSE IF ~UnaryPred(arg, heap.val[src[first]])
       THEN Moved([h |-> heap, d |-> dst, de |-> dest])
       ELSE \/ \E a \in AllocChoices(heap) :
                  Moved(CloneIter(heap, dst, dest, src[first], a))
            \/ Stop("thrown", heap)

\* The old pointer is deleted before Clone() is called: when Clone() throws,
\* the slot still holds it.
StepReplaceClone ==
    /\ Visit("ReplaceClone")
    /\ IF AssertFails THEN Stop("assert", heap)
       ELSE \/ \E a \in AllocChoices(Delete(heap, dst[dest])) :
                  Moved(ReplaceCloneIter(heap, dst, dest, src[first], a))
            \/ Stop("thrown", Delete(heap, dst[dest]))

StepReplaceCloneIf ==
    /\ Visit("ReplaceCloneIf")
    /\ IF AssertFails THEN Stop("assert", heap)
       ELSE IF ~UnaryPred(arg, heap.val[src[first]])
       THEN Moved([h |-> heap, d |-> dst, de |-> dest])
       ELSE \/ \E a \in AllocChoices(Delete(heap, dst[dest])) :
                  Moved(ReplaceCloneIter(heap, dst, dest, src[first], a))
            \/ Stop("thrown", Delete(heap, dst[dest]))

\* return dest;
ReturnCopy ==
    /\ pc = "loop" /\ first = Last(src)
    /\ pc' = "done"
    /\ result' = dest
    /\ UNCHANGED <<heap, src, dst, res, op, arg, first, dest, ndebug, pCont,
                   first_, last_, orig, hist>>

\* ~raii_ptrs_range_wrapper() over the slots c, and the first_ it ends with.
RangeGuardDtor(h, c, f, l) == DeleteAll(h, SubSeq(c, f, l - 1))

\* The exception leaves the caller's scope: its range guard is destroyed.
Unwind ==
    /\ pc = "thrown"
    /\ pc' = "unwound"
    /\ heap' = RangeGuardDtor(heap, dst, first_, last_)
    /\ first_' = last_
    /\ UNCHANGED <<src, dst, res, op, arg, first, dest, result, ndebug, pCont,
                   last_, orig, hist>>

NextCopy ==
    \/ CallCopy
    \/ CallCopyIf
    \/ CallReplaceCopy
    \/ CallReplaceCopyIf
    \/ CallClone
    \/ CallCloneIf
    \/ CallReplaceClone
    \/ CallReplaceCloneIf
    \/ StepCopy
    \/ StepCopyIf
    \/ StepReplaceCopy
    \/ StepReplaceCopyIf
    \/ StepClone
    \/ StepCloneIf
    \/ StepReplaceClone
    \/ StepReplaceCloneIf
    \/ ReturnCopy
    \/ Unwind

SpecCopy == InitCopy /\ [][NextCopy]_vars

(***************************************************************************)
(* Properties of the copy, replace and clone families.                     *)
(***************************************************************************)
Filtered == {"CopyIf", "CloneIf", "ReplaceCopyIf", "ReplaceCloneIf"}
\* Slot i of the destination holds a live address that no other slot holds.
OwnsAlone(i) ==
    /\ dst[i] \in heap.live
    /\ \A j \in DOMAIN dst : j # i => dst[j] # dst[i]

\* C5: CopyIf, CloneIf, ReplaceCopyIf and ReplaceCloneIf with predicate P: the
\* k-th source element satisfying P is written to destination position k,
\* the destination slots past the number of matches are left unchanged, and
\* the iterator returned is dest plus the number of matches.
C5_FilterFidelity ==
    (pc = "done" /\ op \in Filtered /\ NoNulls(orig.dst)) =>
        LET m == {i \in DOMAIN src : UnaryPred(arg, orig.heap.val[src[i]])}
            k == Cardinality(m)
            hit == SubSeqAt(src, m)
        IN  /\ result = 1 + k
            /\ \A j \in 1 .. k :
                  /\ dst[j] \in heap.live
                  /\ heap.val[dst[j]] = orig.heap.val[hit[j]]
            /\ \A j \in (k + 1) .. Len(dst) :
                  /\ dst[j] = orig.dst[j]
                  /\ dst[j] # NULL =>
                        /\ dst[j] \in heap.live
                        /\ heap.val[dst[j]] = orig.heap.val[dst[j]]

\* Copy / ReplaceCopy / ReplaceClone over disjoint ranges of equal length that
\* hold non-null pointers.  `strict` adds that ReplaceClone's new address
\* differs from the slot's old one.
ValueVsIdentity(strict) ==
    (pc = "done" /\ op \in {"Copy", "ReplaceCopy", "ReplaceClone"}
                 /\ NoNulls(orig.dst)) =>
        LET h0 == orig.heap
        IN  /\ src = orig.src
            /\ \A i \in DOMAIN src :
                  src[i] \in heap.live /\ heap.val[src[i]] = h0.val[src[i]]
            /\ op \in {"Copy", "ReplaceCopy"} =>
                  /\ dst = orig.dst
                  /\ \A i \in DOMAIN dst : heap.val[dst[i]] = h0.val[src[i]]
                  /\ heap.live = h0.live
                  /\ heap.nAlloc = h0.nAlloc /\ heap.nFree = h0.nFree
            /\ op = "ReplaceClone" =>
                  /\ \A i \in DOMAIN dst :
                        /\ OwnsAlone(i)
                        /\ heap.nAlloc[dst[i]] > h0.nAlloc[dst[i]]
                        /\ dst[i] \notin Range(src)
                        /\ strict => dst[i] # orig.dst[i]
                        /\ heap.val[dst[i]] = h0.val[src[i]]
                  /\ \A a \in Addr :
                        Deleted(h0, heap, a) = IF a \in Range(orig.dst) THEN 1 ELSE 0

\* C6 as stated: ... after ReplaceClone every destination slot holds a fresh
\* heap address different from its old address, from every source address
\* and from every other destination address ...
C6_ValueVsIdentity == ValueVsIdentity(TRUE)

\* C6 as amended: after Copy or ReplaceCopy every destination slot holds the
\* address it held and its pointee equals the source pointee; after
\* ReplaceClone every destination slot holds a live address allocated during
\* the call, different from every source address and from the address of every
\* other destination slot, with a pointee equal to the source pointee, and
\* each old destination address was deleted exactly once (the new address may
\* be an old destination address handed out again); source slots and
\* pointees are unchanged.
C6_ValueVsFreshAllocation == ValueVsIdentity(FALSE)

C6_Witness ==
    /\ pc = "done" /\ op = "ReplaceClone"
    /\ Len(src) = MaxLen /\ NoNulls(orig.dst)
    /\ dst[1] = orig.dst[1]
    /\ dst[2] \notin Range(orig.dst)

\* C9: Clone and CloneIf called with non-null sources and destination slots
\* that are all null run to completion without an assertion failure, each
\* written slot ends up owning a freshly cloned address, nothing is leaked.
C9_CloneIntoEmptySlots ==
    (op \in {"Clone", "CloneIf"} /\ \A i \in DOMAIN orig.dst : orig.dst[i] = NULL) =>
        /\ pc # "assert"
        /\ pc = "done" =>
              /\ \A j \in 1 .. (result - 1) :
                    OwnsAlone(j) /\ dst[j] \notin orig.heap.live
              /\ heap.live = Range(src) \cup (Range(dst) \ {NULL})

\* C10: when Clone() fails during ReplaceClone or ReplaceCloneIf, every
\* destination slot holds null or a live address it alone owns, never a
\* deleted address; the cleanup of a guard around the destination then
\* deletes every address exactly once.
C10_ReplaceCloneFailure ==
    (op \in {"ReplaceClone", "ReplaceCloneIf"}) =>
        /\ pc = "thrown" => \A i \in DOMAIN dst : dst[i] = NULL \/ OwnsAlone(i)
        /\ pc = "unwound" =>
              /\ \A a \in Addr : heap.nFree[a] <= heap.nAlloc[a]
              /\ Range(dst) \cap heap.live = {}

(***************************************************************************)
(* DeepCopyOfRange / DeepCopy over a source of live pointers.              *)
(***************************************************************************)
InitDeep ==
    \E n \in 0 .. MaxLen : \E sv \in [1 .. n -> Val] :
        /\ src = [i \in 1 .. n |-> i]
        /\ heap = HeapOf(n, sv)
        /\ dst = << >>
        /\ res = << >>
        /\ pc = "idle"
        /\ op = "none"
        /\ arg = 0
        /\ first = 0
        /\ dest = 0
        /\ result = 0
        /\ ndebug = FALSE
        /\ pCont = "nullptr"
        /\ first_ = 0
        /\ last_ = 0
        /\ orig = [src |-> << >>, dst |-> << >>, heap |-> EmptyHeap]
        /\ hist = << >>

\* raii_ptrs_container_wrapper::change_container / the binding constructor.
ChangeContainer(c) == c
\* raii_ptrs_container_wrapper::release
ContainerRelease(bound) == "nullptr"

\* ToContainer result; raii_ptrs_container_wrapper backout{ result };
\* result.reserve(distance(first, last));
CallDeepCopy ==
    /\ pc = "idle"
    /\ pc' = "loop"
    /\ op' = "DeepCopyOfRange"
    /\ res' = << >>
    /\ pCont' = ChangeContainer("res")
    /\ first' = 1
    /\ orig' = [src |-> src, dst |-> dst, heap |-> heap]
    /\ UNCHANGED <<heap, src, dst, arg, dest, result, ndebug, first_, last_, hist>>

\* One call of the lambda by std::transform, and the push_back of what it
\* returns.  If new throws, the stack unwinds: backout is destroyed, then
\* result (no container reaches the caller).
StepDeepCopy ==
    /\ pc = "loop" /\ op = "DeepCopyOfRange" /\ first # Last(src)
    /\ \/ \E a \in AllocChoices(heap) :
             /\ heap' = New(heap, a, heap.val[src[first]])
             /\ res' = Append(res, a)
             /\ first' = first + 1
             /\ UNCHANGED pc
       \/ /\ heap' = ContainerGuardDtor(heap, pCont, res)
          /\ res' = << >>
          /\ pc' = "thrown"
          /\ UNCHANGED first
    /\ UNCHANGED <<src, dst, op, arg, dest, result, ndebug, pCont, first_, last_,
                   orig, hist>>

\* backout.release(); return result; and backout's destructor.
ReturnDeepCopy ==
    /\ pc = "loop" /\ op = "DeepCopyOfRange" /\ first = Last(src)
    /\ pCont' = ContainerRelease(pCont)
    /\ heap' = ContainerGuardDtor(heap, pCont', res)
    /\ pc' = "done"
    /\ UNCHANGED <<src, dst, res, op, arg, first, dest, result, ndebug, first_,
                   last_, orig, hist>>

NextDeep ==
    \/ CallDeepCopy
    \/ StepDeepCopy
    \/ ReturnDeepCopy

SpecDeep == InitDeep /\ [][NextDeep]_vars

\* The addresses allocated since the call.
Fresh == {a \in Addr : heap.nAlloc[a] > orig.heap.nAlloc[a]}
SourceUntouched ==
    /\ src = orig.src
    /\ \A i \in DOMAIN src :
          /\ src[i] \in heap.live
          /\ heap.val[src[i]] = orig.heap.val[src[i]]
          /\ Deleted(orig.heap, heap, src[i]) = 0

\* C7: DeepCopyOfRange over N non-null pointers.  If the k-th construction
\* fails, the k-1 copies appended so far are each deleted exactly once, no
\* container is returned, and no source pointer is deleted or modified.  If
\* none fails, the guard is released, nothing is deleted, and the container
\* returned holds N fresh addresses, pairwise distinct and distinct from the
\* source addresses, with pointees equal to the source's position by position.
C7_DeepCopyAllOrNothing ==
    (op = "DeepCopyOfRange") =>
        /\ pc = "thrown" =>
              /\ Cardinality(Fresh) = first - 1
              /\ \A a \in Addr :
                    Deleted(orig.heap, heap, a) = IF a \in Fresh THEN 1 ELSE 0
              /\ heap.live = orig.heap.live
              /\ res = << >>
              /\ SourceUntouched
        /\ pc = "done" =>
              /\ pCont = "nullptr"
              /\ heap.nFree = orig.heap.nFree
              /\ Len(res) = Len(src)
              /\ \A i \in DOMAIN res :
                    /\ res[i] \in heap.live \ orig.heap.live
                    /\ \A j \in DOMAIN res : j # i => res[j] # res[i]
                    /\ heap.val[res[i]] = heap.val[src[i]]
              /\ SourceUntouched

C7_Witness ==
    /\ op = "DeepCopyOfRange" /\ pc = "thrown"
    /\ Len(src) = MaxLen /\ first = MaxLen
    /\ Cardinality(Fresh) = MaxLen - 1

(***************************************************************************)
(* The two guards.  The caller owns two containers of live pointers, src   *)
(* and dst, constructs one guard, rebinds and releases it any number of    *)
(* times, and lets it go out of scope.  hist keeps the arguments of the    *)
(* last binding call, followed by a release entry if release was called    *)
(* after it.                                                               *)
(***************************************************************************)
Containers == {"src", "dst"}
Cont(c) == IF c = "src" THEN src ELSE dst
\* The valid ranges [f, l) of container c.
Ranges(c) == {r \in (1 .. Last(Cont(c))) \X (1 .. Last(Cont(c))) : r[1] <= r[2]}

Bound(how, c, f, l) == <<[call |-> how, c |-> c, f |-> f, l |-> l]>>
Released == [call |-> "release", c |-> "", f |-> 0, l |-> 0]
NoteRelease == IF hist # << >> /\ hist[Len(hist)] = Released
               THEN hist ELSE Append(hist, Released)

InitGuard ==
    \E n \in 0 .. MaxLen : \E m \in 0 .. MaxLen :
        /\ src = [i \in 1 .. n |-> i]
        /\ dst = [i \in 1 .. m |-> n + i]
        /\ heap = HeapOf(n + m, [a \in 1 .. n + m |-> 0])
        /\ res = << >>
        /\ pc = "idle"
        /\ op = "none"
        /\ arg = "src"
        /\ first = 0
        /\ dest = 0
        /\ result = 0
        /\ ndebug = FALSE
        /\ pCont = "nullptr"
        /\ first_ = 0
        /\ last_ = 0
        /\ orig = [src |-> << >>, dst |-> << >>, heap |-> EmptyHeap]
        /\ hist = << >>

\* raii_ptrs_range_wrapper(first, last) / update_range(first, last)
UpdateRange(f, l) == [first_ |-> f, last_ |-> l]

\* release that returns the end without emptying the range.
RangeReleaseKeepsRange(f, l) == [first_ |-> f, last_ |-> l, ret |-> l]

\* raii_ptrs_range_wrapper::release, and the iterator it returns.
RangeRelease(f, l) == [first_ |-> l, last_ |-> l, ret |-> l]

\* The range guard's fields become g, over container c (arg remembers which
\* container the iterators point into).
RangeSet(c, g, h) ==
    /\ op' = "range"
    /\ pc' = "alive"
    /\ arg' = c
    /\ first_' = g.first_
    /\ last_' = g.last_
    /\ hist' = h
    /\ UNCHANGED <<heap, src, dst, res, first, dest, result, ndebug, pCont, orig>>

\* raii_ptrs_range_wrapper(): first_ and last_ are left uninitialized; they
\* may hold any two iterators.
RangeCtorDefault ==
    /\ pc = "idle"
    /\ \E c \in Containers : \E r \in Ranges(c) :
          RangeSet(c, [first_ |-> r[1], last_ |-> r[2]], << >>)

\* raii_ptrs_range_wrapper(dest)
RangeCtorDest ==
    /\ pc = "idle"
    /\ \E c \in Containers : \E d \in 1 .. Last(Cont(c)) :
          RangeSet(c, UpdateRange(d, d), Bound("ctor", c, d, d))

\* raii_ptrs_range_wrapper(first, last)
RangeCtor ==
    /\ pc = "idle"
    /\ \E c \in Containers : \E r \in Ranges(c) :
          RangeSet(c, UpdateRange(r[1], r[2]), Bound("ctor", c, r[1], r[2]))

\* update_range(first, last)
CallUpdateRange ==
    /\ pc = "alive" /\ op = "range"
    /\ \E c \in Containers : \E r \in Ranges(c) :
          RangeSet(c, UpdateRange(r[1], r[2]), Bound("update_range", c, r[1], r[2]))

\* update_range(cont)
CallUpdateRangeCont ==
    /\ pc = "alive" /\ op = "range"
    /\ \E c \in Containers :
          RangeSet(c, UpdateRange(1, Last(Cont(c))),
                   Bound("update_range(cont)", c, 1, Last(Cont(c))))

\* release()
CallRangeRelease ==
    /\ pc = "alive" /\ op = "range"
    /\ first_' = RangeRelease(first_, last_).first_
    /\ last_' = RangeRelease(first_, last_).last_
    /\ result' = RangeRelease(first_, last_).ret
    /\ hist' = NoteRelease
    /\ UNCHANGED <<heap, src, dst, res, pc, op, arg, first, dest, ndebug, pCont, orig>>

\* ~raii_ptrs_range_wrapper()
RangeDtor ==
    /\ pc = "alive" /\ op = "range"
    /\ heap' = RangeGuardDtor(heap, Cont(arg), first_, last_)
    /\ first_' = last_
    /\ pc' = "destroyed"
    /\ UNCHANGED <<src, dst, res, op, arg, first, dest, result, ndebug, pCont,
                   last_, orig, hist>>

ContainerSet(b, h) ==
    /\ op' = "container"
    /\ pc' = "alive"
    /\ pCont' = b
    /\ hist' = h
    /\ UNCHANGED <<heap, src, dst, res, arg, first, dest, result, ndebug, first_,
                   last_, orig>>

\* raii_ptrs_container_wrapper(): pCont_ = nullptr
ContainerCtorDefault == pc = "idle" /\ ContainerSet("nullptr", << >>)

\* raii_ptrs_container_wrapper(container)
ContainerCtor ==
    /\ pc = "idle"
    /\ \E c \in Containers : ContainerSet(ChangeContainer(c), Bound("ctor", c, 0, 0))

\* change_container(container)
CallChangeContainer ==
    /\ pc = "alive" /\ op = "container"
    /\ \E c \in Containers :
          ContainerSet(ChangeContainer(c), Bound("change_container", c, 0, 0))

\* release()
CallContainerRelease ==
    /\ pc = "alive" /\ op = "container"
    /\ ContainerSet(ContainerRelease(pCont), NoteRelease)

\* The caller appends a new object to a container while the guard is alive.
GuardedPushBack ==
    /\ pc = "alive" /\ op = "container"
    /\ \E c \in Containers : \E a \in AllocChoices(heap) :
          /\ Len(Cont(c)) < MaxLen
          /\ heap' = New(heap, a, 0)
          /\ src' = IF c = "src" THEN Append(src, a) ELSE src
          /\ dst' = IF c = "dst" THEN Append(dst, a) ELSE dst
    /\ UNCHANGED <<res, pc, op, arg, first, dest, result, ndebug, pCont, first_,
                   last_, orig, hist>>

\* ~raii_ptrs_container_wrapper()
ContainerDtor ==
    /\ pc = "alive" /\ op = "container"
    /\ heap' = ContainerGuardDtor(heap, pCont, Cont(pCont))
    /\ pc' = "destroyed"
    /\ UNCHANGED <<src, dst, res, op, arg, first, dest, result, ndebug, pCont,
                   first_, last_, orig, hist>>

NextGuard ==
    \/ RangeCtorDefault
    \/ RangeCtorDest
    \/ RangeCtor
    \/ CallUpdateRange
    \/ CallUpdateRangeCont
    \/ CallRangeRelease
    \/ RangeDtor
    \/ ContainerCtorDefault
    \/ ContainerCtor
    \/ CallChangeContainer
    \/ CallContainerRelease
    \/ GuardedPushBack
    \/ ContainerDtor

SpecGuard == InitGuard /\ [][NextGuard]_vars

\* What the binding the caller set last covers, by the calls it made.
Binding == hist[1]
ReleasedLast == hist[Len(hist)] = Released
Covered ==
    IF ReleasedLast THEN {}
    ELSE IF op = "range"
         THEN {Cont(Binding.c)[i] : i \in Binding.f .. (Binding.l - 1)}
         ELSE Range(Cont(Binding.c))

\* C8: for both guards, construction, rebinding (update_range,
\* change_container) and release delete nothing; destruction deletes exactly
\* once each pointer of the current binding (the range last set, or the
\* contents at that time of the container last bound) if release was not
\* called since the binding was set, and nothing if release was the last
\* call; the range guard's release returns its end marker and leaves the
\* range empty.
C8_GuardLifecycle ==
    (op \in {"range", "container"}) =>
        /\ pc = "alive" => \A a \in Addr : heap.nFree[a] = 0
        /\ (pc = "destroyed" /\ hist # << >>) =>
              \A a \in Addr : heap.nFree[a] = IF a \in Covered THEN 1 ELSE 0
        /\ (op = "range" /\ hist # << >> /\ ReleasedLast) =>
              /\ first_ = last_
              /\ hist[1] # Released => result = Binding.l

C8_Witness ==
    /\ op = "range" /\ pc = "destroyed"
    /\ Len(hist) = 1 /\ Binding.call = "update_range"
    /\ Binding.c = "dst" /\ Binding.f = 2 /\ Binding.l = Last(dst)
    /\ Len(dst) = MaxLen
    /\ result # 0

====
